---- MODULE Spec2Model ----
(***************************************************************************)
(* A model of cambanzo (src/cambanzo.py): the acquisition cycle run_cycle, *)
(* the time-boxed process runner run_for with its timer thread, the batch  *)
(* detection call run_obj_dets, the archiver archive_files and the grid    *)
(* renderer ImageDisplay.                                                  *)
(*                                                                         *)
(* Spec        is the program started by main(); run_for is one step.      *)
(* SpecRunFor  is run_for thread by thread: the child, the reading loop    *)
(*             of the primary thread and the timer thread, interleaved.    *)
(* FairRunFor  is SpecRunFor with both threads scheduled fairly.           *)
(* SpecDisplay drives the class ImageDisplay through its methods, with     *)
(*             image counts 0..max_num_imgs and reference sizes RefSizes.  *)
(***************************************************************************)
EXTENDS Integers, Sequences, FiniteSets, TLC

\* ------------------------------------------------------------------ bounds

\* The clock stops advancing after MaxNow milliseconds.
MaxNow == 1
\* The capture tool emits at most MaxLines lines of output per run.
MaxLines == 1
\* The capture tool writes at most MaxCaptures images in all.
MaxCaptures == 1
\* The program runs at most MaxCycles cycles: the first and the refreshes.
MaxCycles == 2

\* --------------------------------------------------------- program constants

win_width == 1920
win_height == 1080
max_num_imgs == 9

\* The millisecond (since the epoch) at which the program starts; the clock
\* variable counts the whole milliseconds since then.
StartMs == 9

\* ------------------------------------------------------------- text, paths

\* A text is a sequence of tokens; a path is a sequence of components, each
\* a text.  os.path.join appends a component, os.path.basename takes the last.
DigitChars == <<"0", "1", "2", "3", "4", "5", "6", "7", "8", "9">>

RECURSIVE Str(_)
\* str(n) for an integer n >= 0: its decimal digits, no padding.
Str(n) == IF n < 10 THEN <<DigitChars[n + 1]>>
          ELSE Str(n \div 10) \o <<DigitChars[(n % 10) + 1]>>

\* f'{i:02}': decimal, padded with zeros to a width of at least two.
\* Fault model: the index formatted without padding (f'{i}').
Fmt02_unpadded(i) == Str(i)

Fmt02(i) == IF Len(Str(i)) < 2 THEN <<"0">> \o Str(i) ELSE Str(i)

IsDecimal(t) == Len(t) >= 1 /\ \A k \in 1..Len(t) : \E d \in 1..10 : t[k] = DigitChars[d]

join(dir, name) == Append(dir, name)
basename(p) == p[Len(p)]
dirname(p) == SubSeq(p, 1, Len(p) - 1)

Range(s) == {s[k] : k \in 1..Len(s)}
Take(s, n) == SubSeq(s, 1, IF Len(s) < n THEN Len(s) ELSE n)

\* ------------------------------------------------------------ grid layout

\* Sizes (width, height) of the first image, whose aspect ratio show_images
\* uses.  For each of them and every image count 1..max_num_imgs the
\* double-precision results of lines 179-186 equal the integer results below.
RefSizes == {<<1920, 1080>>, <<1280, 720>>, <<1000, 1000>>, <<640, 480>>,
             <<480, 640>>, <<1080, 1920>>, <<3, 1>>}

\* math.ceil(math.sqrt(n))
CeilSqrt(n) == CHOOSE g \in 0..n : g * g >= n /\ (g = 0 \/ (g - 1) * (g - 1) < n)

num_rows_cols(n) == CeilSqrt(n)

img_w(n, orig_w, orig_h) ==
    IF orig_w > orig_h THEN win_width \div num_rows_cols(n)
    ELSE ((win_height \div num_rows_cols(n)) * orig_w) \div orig_h

img_h(n, orig_w, orig_h) ==
    IF orig_w > orig_h THEN ((win_width \div num_rows_cols(n)) * orig_h) \div orig_w
    ELSE win_height \div num_rows_cols(n)

\* int(self.win_width / img_w); 0 stands for the ZeroDivisionError of img_w = 0
num_cols(n, orig_w, orig_h) ==
    IF img_w(n, orig_w, orig_h) = 0 THEN 0 ELSE win_width \div img_w(n, orig_w, orig_h)

num_rows(n, orig_w, orig_h) ==
    IF img_h(n, orig_w, orig_h) = 0 THEN 0 ELSE win_height \div img_h(n, orig_w, orig_h)

\* The layout of n images whose first has the given size: the table
\* dimensions (lines 185-186) and the resized image size (lines 176-183).
Layout(n, size) ==
    [cols |-> num_cols(n, size[1], size[2]), rows |-> num_rows(n, size[1], size[2]),
     w |-> img_w(n, size[1], size[2]), h |-> img_h(n, size[1], size[2]), n |-> n,
     ref |-> size]

\* Lines 185-192 divide by img_w, img_h, num_rows and num_cols.
LayoutRaises(L) == L.w = 0 \/ L.h = 0 \/ L.rows = 0 \/ L.cols = 0

NoLayout == [cols |-> 0, rows |-> 0, w |-> 0, h |-> 0, n |-> 0, ref |-> <<0, 0>>]

\* Where image i (from 0) is painted.
CellOf(i, L) == [row |-> i \div L.rows, col |-> i % L.cols]

Cells(L) == [k \in 1..L.n |-> CellOf(k - 1, L)]


\* ------------------------------------------------- configuration and files

\* configparser hands every value back as a string; run_cycle tests the
\* string itself, so every non-empty value counts as true.
Truthy(s) == s # ""

Root == <<"/">>
IsAbs(p) == Len(p) > 0 /\ p[1] = Root

\* The directory the program is started in.
StartDir == <<Root, <<"h", "o", "m", "e">>>>
\* config['Foggycam']['CapPath'], config['DEFAULT']['OutDir'] (relative to
\* the working directory) and config['Darknet']['Path'].
CapPath == <<<<"c", "a", "p">>>>
OutDir == <<<<"o", "u", "t">>>>
DarknetPath == <<Root, <<"d", "a", "r", "k", "n", "e", "t">>>>
\* config['Darknet']['OutImgFilepathPre']
OutImgFilepathPre == <<"p", "r", "e">>

\* os.path.abspath with working directory wd
abspath(wd, p) == IF IsAbs(p) THEN p ELSE wd \o p

HexChars == {"0", "1", "2", "3", "4", "5", "6", "7", "8", "9",
             "a", "b", "c", "d", "e", "f", "A", "B", "C", "D", "E", "F"}

\* re.search(r'^[A-Fa-f0-9]{32}$', name)
IsCameraId(name) == Len(name) = 32 /\ \A k \in 1..32 : name[k] \in HexChars

\* re.search(r'\.jpg$', name)
IsJpg(name) == Len(name) >= 4 /\ SubSeq(name, Len(name) - 3, Len(name)) = <<".", "j", "p", "g">>

Cam1 == [k \in 1..32 |-> "a"]
Cam2 == [k \in 1..32 |-> IF k % 2 = 0 THEN "F" ELSE "0"]
NotCam == <<"t", "m", "p">>
ImagesDir == <<"i", "m", "a", "g", "e", "s">>
NameA == <<"a", ".", "j", "p", "g">>
NameB == <<"b", ".", "j", "p", "g">>
NameNotes == <<"n", ".", "t", "x", "t">>

CapDir == abspath(StartDir, CapPath)
ImagesOf(cam) == join(join(CapDir, cam), ImagesDir)

\* The directories of the capture tree; they stay when their files are moved.
StaticDirs == {CapDir, join(CapDir, Cam1), join(CapDir, Cam2), join(CapDir, NotCam),
               ImagesOf(Cam1), ImagesOf(Cam2), ImagesOf(NotCam)}

\* The image files the capture tool can write, with their contents.
CapData == (ImagesOf(Cam1) \o <<NameA>> :> "c1a") @@ (ImagesOf(Cam1) \o <<NameB>> :> "c1b")
           @@ (ImagesOf(Cam2) \o <<NameA>> :> "c2a")

\* Files that are always there and that no pattern of the program matches.
OtherData == (ImagesOf(Cam1) \o <<NameNotes>> :> "txt") @@ (ImagesOf(NotCam) \o <<NameA>> :> "tmp")

\* The size of an image by its content: camera 1 is 16:9, camera 2 is 4:3.
SizeOf(data) == IF data \in {"c2a"} THEN <<640, 480>>
                ELSE IF data = "amc" THEN <<1920, 1080>> ELSE <<1280, 720>>

\* The order in which os.listdir returns names (not sorted).
ListOrder == <<Cam1, NotCam, Cam2, ImagesDir, NameB, NameNotes, NameA>>

\* os.listdir(dir) on the files f
listdir(f, dir) ==
    SelectSeq(ListOrder, LAMBDA nm : join(dir, nm) \in (DOMAIN f) \cup StaticDirs)

RECURSIVE Concat(_)
Concat(ss) == IF ss = <<>> THEN <<>> ELSE Head(ss) \o Concat(Tail(ss))

\* The two patterns the program searches names for.
CameraIdPat == "^[A-Fa-f0-9]{32}$"
JpgPat == "\\.jpg$"

\* re.search(patc, mfile) for the patterns above
re_search(pat, name) == IF pat = CameraIdPat THEN IsCameraId(name) ELSE IsJpg(name)

\* matching_files_in(dirs, pat) with full_path=True
matching_files_in(f, wd, dirs, pat) ==
    Concat([k \in 1..Len(dirs) |->
              LET names == SelectSeq(listdir(f, abspath(wd, dirs[k])),
                                     LAMBDA nm : re_search(pat, nm))
              IN  [j \in 1..Len(names) |-> abspath(wd, join(dirs[k], names[j]))]])

\* Lines 287-289: the images of every camera directory under CapPath.
scan_captures(f, wd) ==
    LET cam_paths == matching_files_in(f, wd, <<CapPath>>, CameraIdPat)
    IN  matching_files_in(f, wd, [k \in 1..Len(cam_paths) |-> join(cam_paths[k], ImagesDir)],
                          JpgPat)

\* ----------------------------------------------------------------- clock

\* int(1000 * ts) when t whole milliseconds have passed since the start
Millis(t) == StartMs + t

timestamp_str(t) == Str(Millis(t))

\* --------------------------------------------------------------- archiver

\* shutil.move of one file: a rename that replaces what is at the target.
MoveOne(f, src, dst) ==
    [p \in ((DOMAIN f) \ {src}) \cup {dst} |-> IF p = dst THEN f[src] ELSE f[p]]

RECURSIVE move_files(_, _, _, _)
\* move_files(files, to_dir) on the files f: the files afterwards, and
\* whether a move raised (its source is missing), and the files from the
\* failing one on, which were not moved; earlier moves stay.
move_files(f, wd, files, to_dir) ==
    IF files = <<>> THEN [fs |-> f, raised |-> FALSE, left |-> <<>>]
    ELSE LET src == abspath(wd, Head(files))
             dst == abspath(wd, join(to_dir, basename(Head(files))))
         IN  IF src \notin DOMAIN f THEN [fs |-> f, raised |-> TRUE, left |-> files]
             ELSE move_files(MoveOne(f, src, dst), wd, Tail(files), to_dir)

\* archive_files(files, to_base) at clock reading t: the timestamp
\* directory, then move_files into it.
archive_files(f, wd, files, to_base, t) ==
    LET ts_dir == join(to_base, timestamp_str(t))
        res == move_files(f, wd, files, ts_dir)
    IN  [fs |-> res.fs, raised |-> res.raised, left |-> res.left, ts_dir |-> ts_dir]

\* The names in directory dir.
Entries(f, dir) == {basename(p) : p \in {q \in DOMAIN f : dirname(q) = dir}}

\* --------------------------------------------------------------- detector

\* Lines 254-257: the output base name of one run started at clock reading t
out_img_path(t) ==
    OutImgFilepathPre \o <<"_">> \o <<"o", "b", "j", "_", "d", "e", "t", "_", "o", "u", "t", "_">>
      \o timestamp_str(t) \o <<"_">>

\* Lines 271-273: the output image paths of a batch of n images
out_img_paths(base, n) ==
    [k \in 1..n |-> join(DarknetPath, base \o <<"_", "_">> \o Fmt02(k - 1)
                                           \o <<".", "j", "p", "g">>)]

\* Fault model: chdir.__exit__ leaves the working directory where it is.
chdir_exit_omitted(savedPath, wd) == wd

\* chdir.__exit__, line 80: os.chdir(self.savedPath)
chdir_exit(savedPath, wd) == savedPath

\* Fault model: the exit status is not checked (check=False).
CheckRaises_unchecked(status) == FALSE

\* subprocess.check_output and subprocess.run(check=True) raise
\* CalledProcessError on a nonzero exit status.
CheckRaises(status) == status # 0


\* The detection tool's output lines: a detection line or any other line.
ToolOutputs == {<<[detected |-> FALSE, label |-> "", pct |-> 0],
                  [detected |-> TRUE, label |-> "person", pct |-> 90]>>}

\* re.findall(det_re, stdout): the (label, percent) pairs, in textual order
findall_detected(stdout) ==
    LET hits == SelectSeq(stdout, LAMBDA ln : ln.detected)
    IN  [k \in 1..Len(hits) |-> <<hits[k].label, hits[k].pct>>]

\* What a run of the tool leaves on disk: run in DarknetPath on the batch, it
\* writes an annotated copy of each readable input under the output name of
\* its position; a run that fails writes nothing, and a run that does not
\* honour the naming convention drops the last output.
tool_writes(f, base, batch, status, honours) ==
    LET outs == out_img_paths(base, Len(batch))
        upto == IF honours THEN Len(batch) ELSE Len(batch) - 1
        done == {k \in 1..upto : batch[k] \in DOMAIN f}
    IN  IF status # 0 THEN f
        ELSE [p \in (DOMAIN f) \cup {outs[k] : k \in done} |->
                IF \E k \in done : outs[k] = p
                THEN f[batch[CHOOSE k \in done : outs[k] = p]] ELSE f[p]]

\* --------------------------------------------------------------- download

AmcrestName(t) == <<"a", "m", "c", "r", "_">> \o timestamp_str(t) \o <<".", "j", "p", "g">>

\* download_image(url, user, pwd, name) when the GET answers with `status`
download_image(f, status, name) ==
    IF status # 200 THEN [fs |-> f, ret |-> -1, wrote |-> FALSE]
    ELSE [fs |-> (name :> "amc") @@ f, ret |-> 0, wrote |-> TRUE]

\* --------------------------------------------------------------- renderer

\* show_images once the n images and the first image's size are known:
\* the canvas cv with the images painted up to the first one that cannot be
\* opened (missing = its position from 1, 0 when all can).
paint(cv, n, size, missing) ==
    IF n = 0 \/ missing = 1 THEN [raised |-> TRUE, canvas |-> cv, grid |-> NoLayout]
    ELSE LET L == Layout(n, size)
         IN  IF LayoutRaises(L) THEN [raised |-> TRUE, canvas |-> cv, grid |-> L]
             ELSE IF missing > 1
             THEN [raised |-> TRUE, canvas |-> cv \o SubSeq(Cells(L), 1, missing - 1),
                   grid |-> L]
             ELSE [raised |-> FALSE, canvas |-> cv \o Cells(L), grid |-> L]

\* The first position of img_paths whose file cannot be opened, 0 when none.
FirstMissing(f, wd, paths) ==
    LET bad == {k \in 1..Len(paths) : abspath(wd, paths[k]) \notin DOMAIN f}
    IN  IF bad = {} THEN 0 ELSE CHOOSE k \in bad : \A j \in bad : k <= j

\* show_images(img_paths) on the files f
show_images(cv, f, wd, paths) ==
    paint(cv, Len(paths),
          IF FirstMissing(f, wd, paths) = 1 \/ paths = <<>> THEN <<1, 1>>
          ELSE SizeOf(f[abspath(wd, paths[1])]),
          FirstMissing(f, wd, paths))

\* -------------------------------------------------------------- run_for

\* Fault model: the timer thread ends without killing the child.
kill_omitted(p) == p

\* proc.kill() on the state of the child
kill(p) == IF p = "running" THEN "killed" ELSE p

\* Fault model: run_for returns without waiting for the timer thread.
join_returns_at_once(t) == TRUE

\* th.join() returns once the timer thread has ended.
join_returns(t) == t = "done"

\* readline() returns '' once the child's end of the pipe is closed and
\* the pipe is drained.
at_eof(p, n) == n = 0 /\ p \in {"exited", "killed"}


\* ------------------------------------------------------------------ state

VARIABLES
    pc,            \* where the primary thread is
    depth,         \* the number of event loops running, one inside the other
    ncycles,       \* the number of cycles started
    config,        \* the configuration read by main
    fs,            \* the files: absolute path -> content
    dirs,          \* the directories made by os.makedirs
    now,           \* the clock: whole milliseconds since the start
    cwd,           \* the process working directory
    written,       \* the number of images the capture tool has written
    img_paths,     \* run_cycle's img_paths
    obj_dets,      \* run_cycle's obj_dets
    obj_det_imgs,  \* run_cycle's obj_det_imgs
    imgs,          \* what run_cycle returned
    det,           \* the locals of the run_obj_dets call in progress
    arch,          \* the last archive_files call of this cycle
    cyc,           \* what the cycle in progress has done so far
    proc,          \* the capture child: none, running, exited, killed
    pipe,          \* lines the child wrote that were not read yet
    out,           \* run_for's out: the lines read
    th,            \* the timer thread: none, sleeping, expired, done
    slept,         \* the seconds the timer thread has slept
    root,          \* the Tk root window: none, alive, destroyed
    refresh_cb,    \* ImageDisplay.refresh_cb
    canvas,        \* the cells painted on the canvas of the root window
    grid,          \* the table dimensions show_images computed last
    key            \* the last quit or refresh key handled, and refresh_cb then

ctlVars == <<pc, depth, ncycles>>
envVars == <<config, fs, dirs, now, cwd, written>>
cycVars == <<img_paths, obj_dets, obj_det_imgs, imgs, det, arch, cyc>>
procVars == <<proc, pipe, out, th, slept>>
dispVars == <<root, refresh_cb, canvas, grid, key>>
vars == <<ctlVars, envVars, cycVars, procVars, dispVars>>

\* The longest sleep of the timer thread, in seconds (DefRuntimeSecs).
MaxSecs == 1

NoDet == [base |-> <<>>, savedPath |-> <<>>, batch |-> <<>>, honours |-> TRUE]
NoArch == [files |-> <<>>, dir |-> <<>>, fresh |-> FALSE, raised |-> FALSE, left |-> <<>>,
           calls |-> 0]
NoKey == [char |-> "", cb |-> "None"]

\* The record of a cycle that starts on the files f.
NewCycle(f, wd) ==
    [pre |-> scan_captures(f, wd), captured |-> 0, tool |-> 0, toolExit |-> 0,
     http |-> 0, amcr |-> <<>>, wrote |-> FALSE, moved |-> 0, newdirs |-> {}, rendered |-> FALSE,
     returned |-> FALSE, launchFailed |-> FALSE]

Restrict(g, S) == [x \in S |-> g[x]]

\* The configurations: every section enabled or not, and one that says
\* False where the others say nothing.
Configs == [Foggycam : {"", "True"}, Amcrest : {"", "True"}, Darknet : {"", "True"},
            DefRuntimeSecs : {MaxSecs}]
           \cup {[Foggycam |-> "True", Amcrest |-> "", Darknet |-> "False",
                  DefRuntimeSecs |-> MaxSecs]}

InitCommon ==
    /\ depth = 0
    /\ ncycles = 0
    /\ dirs = {}
    /\ now = 0
    /\ cwd = StartDir
    /\ written = 0
    /\ img_paths = <<>>
    /\ obj_dets = <<>>
    /\ obj_det_imgs = <<>>
    /\ imgs = <<>>
    /\ det = NoDet
    /\ arch = NoArch
    /\ cyc = NewCycle(fs, cwd)
    /\ proc = "none"
    /\ pipe = 0
    /\ out = 0
    /\ th = "none"
    /\ slept = 0
    /\ refresh_cb = "None"
    /\ canvas = <<>>
    /\ grid = NoLayout
    /\ key = NoKey

\* main() after config.read: any configuration, the capture files all
\* there already or none of them, no display yet.
Init ==
    /\ pc = "cycle"
    /\ config \in Configs
    /\ fs \in {OtherData @@ Restrict(CapData, S) : S \in {{}, DOMAIN CapData}}
    /\ root = "none"
    /\ InitCommon

\* An uncaught exception: in main it ends the process; inside the refresh
\* callback Tk reports it and the event loop that called on_keypress goes on.
Raise == pc' = IF depth = 0 THEN "crashed" ELSE "mainloop"

AfterAmcrest == IF Truthy(config.Darknet) THEN "detect" ELSE "return"
AfterFoggycam == IF Truthy(config.Amcrest) THEN "amcrest" ELSE AfterAmcrest

\* ------------------------------------------------------- run_cycle, start

\* run_cycle() is called: by main, or by refresh_imgs.
BeginCycle ==
    /\ pc = "cycle"
    /\ img_paths' = <<>>
    /\ obj_dets' = <<>>
    /\ obj_det_imgs' = <<>>
    /\ imgs' = <<>>
    /\ det' = NoDet
    /\ arch' = NoArch
    /\ cyc' = NewCycle(fs, cwd)
    /\ pc' = IF Truthy(config.Foggycam) THEN "popen" ELSE AfterFoggycam
    /\ ncycles' = ncycles + 1
    /\ UNCHANGED <<depth, envVars, procVars, dispVars>>

\* ----------------------------------------------------------------- run_for

\* The capture files a run of the capture tool may add to the files f when
\* it has written n images before.
Captures(f, n) ==
    {S \in SUBSET ((DOMAIN CapData) \ (DOMAIN f)) : n + Cardinality(S) <= MaxCaptures}

\* Line 284, run_for as a whole (its threads are the actions below, under
\* SpecRunFor): it returns after the capture tool, while it ran, wrote images.
RunFor ==
    /\ pc = "popen"
    /\ \E S \in Captures(fs, written) :
          /\ fs' = Restrict(CapData, S) @@ fs
          /\ written' = written + Cardinality(S)
          /\ cyc' = [cyc EXCEPT !.captured = Cardinality(S)]
    /\ pc' = "scan"
    /\ UNCHANGED <<depth, ncycles, config, dirs, now, cwd, img_paths, obj_dets, obj_det_imgs,
                   imgs, det, arch, procVars, dispVars>>

\* Lines 102-107: the child is started, then the timer thread.
Popen ==
    /\ pc = "popen"
    /\ proc' = "running"
    /\ th' = "sleeping"
    /\ pipe' = 0
    /\ out' = 0
    /\ slept' = 0
    /\ pc' = "read"
    /\ UNCHANGED <<depth, ncycles, envVars, cycVars, dispVars>>

\* subprocess.Popen raises: the command cannot be started.
PopenFails ==
    /\ pc = "popen"
    /\ cyc' = [cyc EXCEPT !.launchFailed = TRUE]
    /\ Raise
    /\ UNCHANGED <<depth, ncycles, envVars, img_paths, obj_dets, obj_det_imgs, imgs, det, arch,
                   procVars, dispVars>>

\* The capture tool prints a line.
ChildPrint ==
    /\ proc = "running"
    /\ pipe + out < MaxLines
    /\ pipe' = pipe + 1
    /\ UNCHANGED <<ctlVars, envVars, cycVars, proc, out, th, slept, dispVars>>

\* The capture tool writes an image.
ChildCapture ==
    /\ proc = "running"
    /\ written < MaxCaptures
    /\ \E p \in (DOMAIN CapData) \ (DOMAIN fs) :
          fs' = (p :> CapData[p]) @@ fs
    /\ written' = written + 1
    /\ cyc' = [cyc EXCEPT !.captured = @ + 1]
    /\ UNCHANGED <<ctlVars, config, dirs, now, cwd, img_paths, obj_dets, obj_det_imgs, imgs,
                   det, arch, procVars, dispVars>>

\* The capture tool ends by itself.
ChildExit ==
    /\ proc = "running"
    /\ proc' = "exited"
    /\ UNCHANGED <<ctlVars, envVars, cycVars, pipe, out, th, slept, dispVars>>

\* Lines 108-111: readline returns a line.
ReadLine ==
    /\ pc = "read"
    /\ pipe > 0
    /\ pipe' = pipe - 1
    /\ out' = out + 1
    /\ UNCHANGED <<ctlVars, envVars, cycVars, proc, th, slept, dispVars>>

\* Lines 108-111: readline returns '' and the loop ends.
ReadEOF ==
    /\ pc = "read"
    /\ at_eof(proc, pipe)
    /\ pc' = "join"
    /\ UNCHANGED <<depth, ncycles, envVars, cycVars, procVars, dispVars>>

\* kill_after, line 95: a second of the sleep passes.
Sleep ==
    /\ th = "sleeping"
    /\ slept < config.DefRuntimeSecs
    /\ slept' = slept + 1
    /\ UNCHANGED <<ctlVars, envVars, cycVars, proc, pipe, out, th, dispVars>>

\* kill_after, line 95: time.sleep(secs) returns.
TimerExpires ==
    /\ th = "sleeping"
    /\ slept >= config.DefRuntimeSecs
    /\ th' = "expired"
    /\ UNCHANGED <<ctlVars, envVars, cycVars, proc, pipe, out, slept, dispVars>>

\* kill_after, line 96: proc.kill(), and the thread ends.
Kill ==
    /\ th = "expired"
    /\ proc' = kill(proc)
    /\ th' = "done"
    /\ UNCHANGED <<ctlVars, envVars, cycVars, pipe, out, slept, dispVars>>

\* Lines 112-113: th.join(), return out.
Join ==
    /\ pc = "join"
    /\ join_returns(th)
    /\ pc' = "returned"
    /\ UNCHANGED <<depth, ncycles, envVars, cycVars, procVars, dispVars>>

\* ------------------------------------------------- run_cycle, acquisition

\* Lines 285-289
ScanCaptures ==
    /\ pc = "scan"
    /\ img_paths' = img_paths \o scan_captures(fs, cwd)
    /\ pc' = AfterFoggycam
    /\ UNCHANGED <<depth, ncycles, envVars, obj_dets, obj_det_imgs, imgs, det, arch, cyc, procVars,
                   dispVars>>

\* Lines 290-298: the snapshot is fetched and its path appended.
Amcrest ==
    /\ pc = "amcrest"
    /\ \E t \in now..MaxNow, status \in {200, 404} :
          LET img_filename == join(abspath(cwd, OutDir), AmcrestName(t))
              res == download_image(fs, status, img_filename)
          IN  /\ now' = t
              /\ fs' = res.fs
              /\ img_paths' = Append(img_paths, img_filename)
              /\ cyc' = [cyc EXCEPT !.http = status, !.amcr = img_filename,
                                    !.wrote = res.wrote]
    /\ pc' = AfterAmcrest
    /\ UNCHANGED <<depth, ncycles, config, written, dirs, cwd, obj_dets, obj_det_imgs, imgs, det, arch, procVars,
                   dispVars>>


\* ------------------------------------------------------------ run_obj_dets

\* Lines 251-264: chdir.__enter__, and the command is built.
DetEnter ==
    /\ pc = "detect"
    /\ \E t \in now..MaxNow :
          /\ now' = t
          /\ det' = [base |-> out_img_path(t), savedPath |-> cwd,
                     batch |-> Take(img_paths, max_num_imgs), honours |-> TRUE]
    /\ cwd' = DarknetPath
    /\ pc' = "tool1"
    /\ UNCHANGED <<depth, ncycles, config, written, fs, dirs, img_paths, obj_dets, obj_det_imgs, imgs, arch, cyc,
                   procVars, dispVars>>

\* Line 265: subprocess.check_output(darknet_cmd, shell=True).  Whether the
\* tool honours the naming convention is the same for both of its runs.
ToolRun1 ==
    /\ pc = "tool1"
    /\ \E status \in {0, 1}, honours \in BOOLEAN :
          /\ status # 0 => honours
          /\ fs' = tool_writes(fs, det.base, det.batch, status, honours)
          /\ det' = [det EXCEPT !.honours = honours]
          /\ cyc' = [cyc EXCEPT !.tool = @ + 1,
                                !.toolExit = IF status # 0 THEN status ELSE @]
          /\ IF CheckRaises(status)
             THEN /\ cwd' = chdir_exit(det.savedPath, cwd)
                  /\ Raise
             ELSE /\ cwd' = cwd
                  /\ pc' = "tool2"
    /\ UNCHANGED <<depth, ncycles, config, written, dirs, now, img_paths, obj_dets, obj_det_imgs, imgs, arch,
                   procVars, dispVars>>

\* Lines 266-274: subprocess.run(darknet_cmd, check=True), the detections,
\* the output paths, chdir.__exit__.
ToolRun2 ==
    /\ pc = "tool2"
    /\ \E status \in {0, 1}, stdout \in ToolOutputs :
          /\ fs' = tool_writes(fs, det.base, det.batch, status, det.honours)
          /\ cyc' = [cyc EXCEPT !.tool = @ + 1,
                                !.toolExit = IF status # 0 THEN status ELSE @]
          /\ cwd' = chdir_exit(det.savedPath, cwd)
          /\ IF CheckRaises(status)
             THEN /\ Raise
                  /\ UNCHANGED <<obj_dets, obj_det_imgs>>
             ELSE /\ obj_dets' = <<findall_detected(stdout)>>
                  /\ obj_det_imgs' = out_img_paths(det.base, Len(det.batch))
                  /\ pc' = "archive1"
    /\ UNCHANGED <<depth, ncycles, config, written, dirs, now, img_paths, imgs, det, arch, procVars, dispVars>>

\* ------------------------------------------------- run_cycle, archive, end

\* The effect of one archive_files(files, OutDir) call at clock reading t.
Archive(files, t) ==
    LET res == archive_files(fs, cwd, files, OutDir, t)
    IN  /\ now' = t
        /\ fs' = res.fs
        /\ dirs' = dirs \cup {abspath(cwd, res.ts_dir)}
        /\ arch' = [files |-> files, dir |-> res.ts_dir,
                    fresh |-> abspath(cwd, res.ts_dir) \notin dirs,
                    raised |-> res.raised, left |-> res.left, calls |-> arch.calls + 1]
        /\ cyc' = [cyc EXCEPT !.moved = @ + (Len(files) - Len(res.left)),
                              !.newdirs = @ \cup ({abspath(cwd, res.ts_dir)} \ dirs)]

\* Line 303: archive_files(img_paths, OutDir)
Archive1 ==
    /\ pc = "archive1"
    /\ \E t \in now..MaxNow : Archive(img_paths, t)
    /\ IF arch'.raised THEN Raise ELSE pc' = "archive2"
    /\ UNCHANGED <<depth, ncycles, config, written, cwd, img_paths, obj_dets, obj_det_imgs, imgs, det, procVars,
                   dispVars>>

\* Lines 304-307: archive_files(obj_det_imgs, OutDir), the paths rewritten
\* to the archive directory, and the return.
Archive2 ==
    /\ pc = "archive2"
    /\ \E t \in now..MaxNow : Archive(obj_det_imgs, t)
    /\ IF arch'.raised
       THEN /\ Raise
            /\ UNCHANGED <<obj_det_imgs, imgs>>
       ELSE /\ obj_det_imgs' = [k \in 1..Len(obj_det_imgs) |->
                                  join(arch'.dir, basename(obj_det_imgs[k]))]
            /\ imgs' = Take(obj_det_imgs', max_num_imgs)
            /\ pc' = "show"
    /\ UNCHANGED <<depth, ncycles, config, written, cwd, img_paths, obj_dets, det, procVars, dispVars>>

\* Line 308: return img_paths[:max_num_imgs]
ReturnImages ==
    /\ pc = "return"
    /\ imgs' = Take(img_paths, max_num_imgs)
    /\ pc' = "show"
    /\ UNCHANGED <<depth, ncycles, envVars, img_paths, obj_dets, obj_det_imgs, det, arch, cyc, procVars,
                   dispVars>>

\* ------------------------------------------------------------ the display

\* main, lines 362-364 (a new ImageDisplay, on_refresh, show_images), or
\* refresh_imgs, line 331 (show_images on the display that called it).
ShowImages ==
    /\ pc = "show"
    /\ LET res == show_images(IF depth = 0 THEN <<>> ELSE canvas, fs, cwd, imgs)
       IN  /\ canvas' = res.canvas
           /\ grid' = res.grid
           /\ IF res.raised
              THEN Raise /\ depth' = depth
              ELSE pc' = "mainloop" /\ depth' = depth + 1
    /\ root' = "alive"
    /\ refresh_cb' = "refresh_imgs"
    /\ key' = IF depth = 0 THEN NoKey ELSE key
    /\ cyc' = [cyc EXCEPT !.rendered = TRUE]
    /\ UNCHANGED <<ncycles, envVars, img_paths, obj_dets, obj_det_imgs, imgs, det, arch, procVars>>

\* Fault model: the quit key destroys the root without sys.exit(0); the
\* event loop returns to its caller.
KeyQuit_without_exit ==
    /\ pc = "mainloop"
    /\ root' = "destroyed"
    /\ key' = [char |-> "q", cb |-> refresh_cb]
    /\ pc' = IF depth = 1 THEN "cycle" ELSE "mainloop"
    /\ depth' = depth - 1
    /\ UNCHANGED <<ncycles, envVars, cycVars, procVars, refresh_cb, canvas, grid>>

\* on_keypress with e.char == 'q': the root is destroyed and sys.exit(0)
\* unwinds every event loop.
KeyQuit ==
    /\ pc = "mainloop"
    /\ root' = "destroyed"
    /\ key' = [char |-> "q", cb |-> refresh_cb]
    /\ pc' = "exited"
    /\ depth' = 0
    /\ UNCHANGED <<ncycles, envVars, cycVars, procVars, refresh_cb, canvas, grid>>

\* on_keypress with e.char == ' ': the callback, when there is one, runs a
\* cycle and shows it from inside this handler; line 216 follows only once
\* the callback has returned.
KeySpace ==
    /\ pc = "mainloop"
    /\ key' = [char |-> " ", cb |-> refresh_cb]
    /\ IF refresh_cb # "None"
       THEN /\ ncycles < MaxCycles
            /\ pc' = "cycle"
            /\ UNCHANGED <<depth, root>>
       ELSE /\ root' = "destroyed"
            /\ depth' = depth - 1
            /\ pc' = "returned"
    /\ UNCHANGED <<ncycles, envVars, cycVars, procVars, refresh_cb, canvas, grid>>

\* on_keypress with any other character: two lines are printed.
KeyOther ==
    /\ pc = "mainloop"
    /\ UNCHANGED vars

\* ----------------------------------------------------------- the program

Next ==
    \/ BeginCycle
    \/ RunFor
    \/ PopenFails
    \/ ScanCaptures
    \/ Amcrest
    \/ DetEnter
    \/ ToolRun1
    \/ ToolRun2
    \/ Archive1
    \/ Archive2
    \/ ReturnImages
    \/ ShowImages
    \/ KeyQuit
    \/ KeySpace
    \/ KeyOther

Spec == Init /\ [][Next]_vars


\* ------------------------------------------------- run_for and its threads

\* run_for is about to be called, for any duration.
InitRunFor ==
    /\ pc = "popen"
    /\ config \in [Foggycam : {"True"}, Amcrest : {""}, Darknet : {""},
                   DefRuntimeSecs : 0..MaxSecs]
    /\ fs = OtherData
    /\ root = "none"
    /\ InitCommon

\* run_for is called again, as the next cycle does.
RunForAgain ==
    /\ pc = "returned"
    /\ ncycles < MaxCycles
    /\ ncycles' = ncycles + 1
    /\ pc' = "popen"
    /\ cyc' = NewCycle(fs, cwd)
    /\ UNCHANGED <<depth, envVars, img_paths, obj_dets, obj_det_imgs, imgs, det, arch, procVars,
                   dispVars>>

NextRunFor ==
    \/ Popen
    \/ PopenFails
    \/ ChildPrint
    \/ ChildCapture
    \/ ChildExit
    \/ ReadLine
    \/ ReadEOF
    \/ Sleep
    \/ TimerExpires
    \/ Kill
    \/ Join
    \/ RunForAgain

SpecRunFor == InitRunFor /\ [][NextRunFor]_vars

\* The operating system schedules both threads: neither waits forever when
\* it can take a step.  The capture tool itself need not do anything.
FairRunFor ==
    /\ SpecRunFor
    /\ WF_vars(ReadLine)
    /\ WF_vars(ReadEOF)
    /\ WF_vars(Join)
    /\ WF_vars(Sleep)
    /\ WF_vars(TimerExpires)
    /\ WF_vars(Kill)


\* ------------------------------------------- ImageDisplay by its methods

\* An ImageDisplay has just been constructed: lines 154-162.
InitDisplay ==
    /\ pc = "constructed"
    /\ config = [Foggycam |-> "", Amcrest |-> "", Darknet |-> "", DefRuntimeSecs |-> 0]
    /\ fs = OtherData
    /\ root = "alive"
    /\ InitCommon

\* ImageDisplay(): lines 154-162, once the previous display is gone.
Construct ==
    /\ pc = "returned"
    /\ root' = "alive"
    /\ refresh_cb' = "None"
    /\ canvas' = <<>>
    /\ grid' = NoLayout
    /\ key' = NoKey
    /\ pc' = "constructed"
    /\ UNCHANGED <<depth, ncycles, envVars, cycVars, procVars>>

\* show_images(img_paths) with n images that can all be opened, the first of
\* the given size; an exception leaves the display to the caller.
DisplayShow ==
    /\ pc = "constructed"
    /\ \E n \in 0..max_num_imgs, size \in RefSizes :
          LET res == paint(canvas, n, size, 0)
          IN  /\ canvas' = res.canvas
              /\ grid' = res.grid
              /\ IF res.raised
                 THEN UNCHANGED <<pc, depth>>
                 ELSE pc' = "mainloop" /\ depth' = depth + 1
    /\ UNCHANGED <<ncycles, envVars, cycVars, procVars, root, refresh_cb, key>>

NextDisplay ==
    \/ Construct
    \/ DisplayShow
    \/ KeyQuit
    \/ KeySpace
    \/ KeyOther

SpecDisplay == InitDisplay /\ [][NextDisplay]_vars


\* ================================================================ claims

\* The decimal numeral t read back as a number.
RECURSIVE DecimalValue(_)
DecimalValue(t) ==
    IF t = <<>> THEN 0
    ELSE 10 * DecimalValue(SubSeq(t, 1, Len(t) - 1))
           + ((CHOOSE d \in 1..10 : DigitChars[d] = t[Len(t)]) - 1)

\* The index i as exactly two decimal digits (i < 100).
TwoDigits(i) == <<DigitChars[(i \div 10) + 1], DigitChars[(i % 10) + 1]>>

\* run_cycle has returned to its caller, which has not rendered yet.
CycleReturned == pc = "show"

\* C1: with detection disabled by configuration and N pre-existing images
\* (N in 1..9), one run of run_cycle acquires exactly those N paths, never
\* invokes the detection tool, moves exactly those N files into one newly
\* created timestamp-named directory, and returns exactly those N paths
\* rewritten to their new location inside that directory.
C1_DisabledCycleArchives ==
    (/\ CycleReturned
     /\ config.Darknet \in {"", "False"}
     /\ Truthy(config.Foggycam) /\ ~Truthy(config.Amcrest)
     /\ cyc.captured = 0
     /\ Len(cyc.pre) \in 1..max_num_imgs)
    => /\ img_paths = cyc.pre
       /\ cyc.tool = 0
       /\ cyc.moved = Len(cyc.pre)
       /\ \E d \in cyc.newdirs :
             /\ cyc.newdirs = {d}
             /\ IsDecimal(basename(d))
             /\ imgs = [k \in 1..Len(cyc.pre) |-> join(d, basename(cyc.pre[k]))]
             /\ \A k \in 1..Len(imgs) : imgs[k] \in DOMAIN fs
       /\ \A k \in 1..Len(cyc.pre) : cyc.pre[k] \notin DOMAIN fs

\* C2: when the snapshot fetch returns a status other than 200, no output
\* file is created for that source and no path for that source is added to
\* the cycle's acquired-image list; the rest of the cycle continues.
C2_FailedDownloadAddsNothing ==
    (cyc.http # 0 /\ cyc.http # 200)
    => /\ ~cyc.wrote
       /\ cyc.amcr \notin Range(img_paths)

\* C3: in every interleaving of the primary thread and the timer thread,
\* run_for returns only after the output stream has closed and the timer
\* thread has finished; no timer thread is alive outside a run_for call.
C3_JoinedBeforeReturn ==
    /\ pc = "returned" => /\ proc \in {"exited", "killed"}
                          /\ pipe = 0
                          /\ th = "done"
    /\ pc \notin {"read", "join"} => th \notin {"sleeping", "expired"}

\* A run_for call in which the timer thread killed the child has returned.
C3_Witness == pc = "returned" /\ proc = "killed" /\ out = MaxLines

\* The steps the primary thread still takes before run_for returns, once
\* the child is gone: the unread lines, the empty read, the join.
Remaining == IF pc = "read" THEN pipe + 2 ELSE IF pc = "join" THEN 1 ELSE 0

\* C4: for every duration and every command that starts, also one that
\* would never exit or close its output by itself, run_for eventually
\* returns; the kill is delivered when the timer expires whatever the child
\* has done, and from then on every step brings the return closer, at most
\* MaxLines + 2 steps away.
C4_RunForReturns ==
    /\ (pc = "read") ~> (pc = "returned")
    /\ [](th = "done" /\ pc \in {"read", "join"}
            => proc \in {"exited", "killed"} /\ Remaining <= MaxLines + 2)
    /\ [][th = "done" /\ pc \in {"read", "join"} => Remaining' < Remaining]_vars

\* A call with the longest duration has returned after the full sleep, the
\* child killed by the timer thread.
C4_Witness ==
    /\ pc = "returned" /\ proc = "killed"
    /\ config.DefRuntimeSecs = MaxSecs /\ slept = MaxSecs

\* run_obj_dets has just returned its two lists.
DetReturned == pc = "archive1"

\* C5: for every batch of N >= 1 input images, run_obj_dets returns exactly
\* N output image paths, the one at position i being the run's output base
\* path, a double underscore and i as a two-digit zero-padded index, in
\* input order; the input paths are not modified.
C5_OutputPaths ==
    (DetReturned /\ Len(det.batch) >= 1)
    => /\ Len(obj_det_imgs) = Len(det.batch)
       /\ \A k \in 1..Len(obj_det_imgs) :
             obj_det_imgs[k] = join(DarknetPath, det.base \o <<"_", "_">> \o TwoDigits(k - 1)
                                                    \o <<".", "j", "p", "g">>)
       /\ det.batch = Take(img_paths, max_num_imgs)

\* run_obj_dets has returned the paths of a batch of several images.
C5_Witness == DetReturned /\ Len(det.batch) >= 3 /\ Len(obj_det_imgs) >= 3

\* C6: each call of run_obj_dets starts the detection tool exactly once
\* for the whole batch, and nothing re-runs it within the same cycle.
C6_ToolStartedOnce ==
    /\ cyc.tool <= 1
    /\ DetReturned => cyc.tool = 1

\* C7: when the detection tool exits with a nonzero status, run_obj_dets
\* returns no detections and no output paths, and in that cycle no file is
\* moved into an archive directory and the renderer is not invoked.
C7_FailureAbortsCycle ==
    cyc.toolExit # 0
    => /\ obj_dets = <<>>
       /\ obj_det_imgs = <<>>
       /\ cyc.moved = 0
       /\ cyc.newdirs = {}
       /\ arch.calls = 0
       /\ ~cyc.rendered
       /\ imgs = <<>>
       /\ pc \in {"crashed", "mainloop", "exited", "cycle"}

\* The tool failed in a cycle run by the refresh callback, with images in
\* the batch; the display that was there goes on.
C7_Witness ==
    /\ cyc.toolExit # 0 /\ Len(det.batch) >= 1
    /\ pc = "mainloop" /\ root = "alive"

\* An archive_files call has just succeeded on a non-empty list.
Archived ==
    /\ pc = "archive2" \/ (pc = "show" /\ arch.calls = 2)
    /\ ~arch.raised
    /\ arch.files # <<>>

\* C8: for every non-empty set of files F and base directory B, after
\* archive_files(F, B) succeeds the returned directory is B joined with a
\* decimal millisecond-timestamp name, it contains exactly the base names
\* of F, one entry per file of F, and no file of F is left where it was.
C8_ArchiveExact ==
    Archived
    => /\ dirname(arch.dir) = OutDir
       /\ IsDecimal(basename(arch.dir))
       /\ DecimalValue(basename(arch.dir)) = Millis(now)
       /\ Entries(fs, abspath(cwd, arch.dir)) = {basename(p) : p \in Range(arch.files)}
       /\ Cardinality(Entries(fs, abspath(cwd, arch.dir))) = Len(arch.files)
       /\ \A p \in Range(arch.files) : abspath(cwd, p) \notin DOMAIN fs

\* show_images has computed the table dimensions of n images.
Gridded(n) == grid.n = n /\ pc \in {"mainloop", "constructed"}

\* C9: on the 1920x1080 canvas the grid show_images computes, columns by
\* rows, is 1x1 for N=1, 2x2 for N=4 with a square reference image, and
\* 3x3 for N=9.
C9_GridDimensions ==
    /\ Gridded(1) => grid.cols = 1 /\ grid.rows = 1
    /\ Gridded(4) /\ grid.ref[1] = grid.ref[2] => grid.cols = 2 /\ grid.rows = 2
    /\ Gridded(9) => grid.cols = 3 /\ grid.rows = 3

\* C10: when a refresh key event arrives and no refresh callback is
\* registered, the event is a no-op: the display is not torn down, no
\* cycle is run, and the renderer's state is unchanged.
C10_RefreshWithoutCallbackIsNoOp ==
    (key.char = " " /\ key.cb = "None")
    => /\ root = "alive"
       /\ pc = "mainloop"
       /\ depth >= 1
       /\ canvas = Cells(grid)


\* C11: after any sequence of refresh events at most one display and one
\* event loop are live: each refresh tears the current display down and
\* builds a new one, so the canvas of a showing display holds the cells of
\* its own cycle only.
C11_OneLiveDisplay ==
    /\ depth <= 1
    /\ pc = "mainloop" => canvas = Cells(grid)

\* The cycle's archiving has finished: archive_files has returned.
ArchivingDone == arch.calls >= 1 /\ ~arch.raised /\ pc \notin {"archive1", "archive2"}

\* The cycle's detection has finished without a failure.
DetectingDone == cyc.tool >= 1 /\ cyc.toolExit = 0 /\ pc \notin {"detect", "tool1", "tool2"}

\* The cycle's acquisition has finished.
AcquiringDone == ~cyc.launchFailed /\ pc \notin {"popen", "scan", "amcrest"}

\* C12: in every cycle the stages occur in the order Acquiring, Detecting
\* (only when detection is enabled), Archiving, Displaying; Displaying is
\* never entered for a cycle whose acquisition (and detection, when
\* enabled) did not complete, and never before its Archiving has finished.
C12_StageOrder ==
    /\ cyc.rendered => /\ AcquiringDone
                       /\ Truthy(config.Darknet) => DetectingDone
                       /\ ArchivingDone
    /\ arch.calls >= 1 => /\ AcquiringDone
                          /\ Truthy(config.Darknet) => DetectingDone
    /\ cyc.tool >= 1 => AcquiringDone /\ Truthy(config.Darknet)

\* C13: when the capture command cannot be started, the failure is
\* confined to that source: it contributes no image, the cycle is not
\* aborted, and the remaining sources and stages of the cycle still run.
C13_LaunchFailureConfined ==
    cyc.launchFailed
    => /\ pc # "crashed"
       /\ pc \in {"scan", "amcrest", "detect", "tool1", "tool2", "archive1", "archive2",
                  "return", "show"} \/ cyc.rendered

\* C14: after a detection failure in any cycle, the first started by main
\* or one started by a refresh, the orchestrator does not terminate: it
\* stays ready for a later refresh or iteration.
C14_DetectionFailureRecovers ==
    cyc.toolExit # 0 => pc # "crashed"


\* C15: the process working directory after run_obj_dets ends equals the
\* working directory before the call on every exit path, the one where the
\* detection tool exits nonzero and the failure propagates included.
C15_WorkingDirectoryRestored ==
    /\ pc \notin {"tool1", "tool2"} => cwd = StartDir
    /\ pc \in {"tool1", "tool2"} => det.savedPath = StartDir /\ cwd = DarknetPath

\* run_obj_dets was left by the exception of a failed tool run.
C15_Witness ==
    /\ cyc.toolExit # 0 /\ cyc.tool = 2
    /\ pc \in {"crashed", "mainloop"}
    /\ cwd = StartDir /\ det.savedPath = StartDir

\* C16: from every state in which a display is showing, however many
\* refreshes preceded it, a quit key event tears down the display and
\* terminates the process; no cycle stage runs after the quit event.
C16_QuitTerminates ==
    key.char = "q" => pc = "exited" /\ root = "destroyed" /\ depth = 0

\* The quit key was handled by an event loop nested in another one by a
\* refresh.
C16_Witness == key.char = "q" /\ pc = "exited" /\ ncycles >= 2 /\ grid.n >= 1

\* What the cycle handed to archive_files: the acquired images and the
\* detection output images.
CycleArtifacts == {basename(p) : p \in Range(img_paths) \cup Range(obj_det_imgs)}

\* C17: all artifacts archived by one cycle, the raw acquired images and
\* the detection output images, end up together in a single timestamp
\* directory that is unique to that cycle and holds no artifact of any
\* other cycle.
C17_OneDirectoryPerCycle ==
    (pc = "show" /\ arch.calls = 2 /\ img_paths # <<>>)
    => \E d \in cyc.newdirs :
          /\ cyc.newdirs = {d}
          /\ Entries(fs, d) = CycleArtifacts

\* The files of the failed archive_files call in front of the failing one.
MovedBefore == SubSeq(arch.files, 1, Len(arch.files) - Len(arch.left))

\* C18: when the move of the k-th file fails during archive_files, the
\* files before it are in the archive directory and stay there, the k-th
\* and later files are left where they were, nothing is rolled back, and
\* the failure is surfaced as a warning only, without aborting the cycle.
C18_PartialArchive ==
    (arch.raised /\ pc # "cycle")
    => /\ arch.left # <<>>
       /\ abspath(cwd, Head(arch.left)) \notin DOMAIN fs
       /\ \A p \in Range(MovedBefore) :
             /\ abspath(cwd, join(arch.dir, basename(p))) \in DOMAIN fs
             /\ abspath(cwd, p) \notin DOMAIN fs
       /\ pc \in {"archive2", "show", "mainloop"} /\ (pc = "mainloop" => cyc.rendered)

\* The number of cells of the table.
Capacity == grid.rows * grid.cols

\* C19: for every image count N in 1..9 and every reference image size,
\* the cells show_images assigns are pairwise distinct for the images with
\* index i < rowCount * columnCount, and each such image gets a row below
\* rowCount and a column below columnCount.
C19_CellsDistinctAndInside ==
    (pc = "mainloop" /\ grid.n \in 1..max_num_imgs /\ Len(canvas) = grid.n)
    => \A i \in 1..grid.n :
          i <= Capacity
          => /\ canvas[i].row < grid.rows
             /\ canvas[i].col < grid.cols
             /\ \A j \in 1..grid.n : (j <= Capacity /\ j # i) => canvas[j] # canvas[i]

\* C20: when the cycle's acquired batch is empty, run_obj_dets raises on
\* the empty batch without starting the external tool, and the renderer is
\* never asked to lay out zero images.
C20_EmptyBatchFailsFast ==
    /\ (det # NoDet /\ det.batch = <<>>) => cyc.tool = 0 /\ pc \notin {"archive1", "archive2"}
    /\ cyc.rendered => imgs # <<>>

====
